---- MODULE Spec2Model ----
(***************************************************************************)
(* Player movement / collision resolution (PhysicsSystem) and the clue     *)
(* progression state machine (gameState, InteractionManager.handleClick)   *)
(* of the heritage-site exploration game.                                  *)
(*                                                                         *)
(* Numbers are fixed point: lengths in 1/1000 world units, velocities in   *)
(* 1/1000 units per second, a time step dt = 1/den seconds.  A comparison  *)
(* "distance < r" of the code is made on the squares, which is exact; the  *)
(* square root is taken only where the code divides by the distance.       *)
(***************************************************************************)
EXTENDS Integers, Sequences, FiniteSets, TLC

VARIABLES
    playerPosition,   \* PhysicsSystem.playerPosition  [x, y, z]
    playerVelocity,   \* PhysicsSystem.playerVelocity  [x, y, z]
    isGrounded,       \* PhysicsSystem.isGrounded
    isCrouching,      \* PhysicsSystem.isCrouching
    gameState,        \* main: gameState
    ticks,            \* number of frames simulated so far (bounded runs only)
    lastEvent,        \* history: what the most recent tick or click did
    acceptedClicks,   \* history: the clue levels whose click handleClick accepted
    cameraPosition,   \* window.camera.position
    currentHit,       \* RaycastManager.currentHit
    sceneConfig,      \* main: which world configuration the session was given
    startPhase,       \* main: where startGame / init stands
    loadPromise,      \* the promise loadSplatMesh returned
    cdnProgress,      \* loadingScreen: the progress last set
    physicsRetries,   \* initializeSystems: physicsRetries
    physicsSystem,    \* main: physicsSystem (undefined, initialized or null)
    animateStarted,   \* main: animate() has been called
    startGameResult,  \* the promise startGame returned
    pendingFrames,    \* the animate invocations that are due or scheduled
    initializeCalls   \* history: the calls of PhysicsSystem.initialize so far

physVars == <<playerPosition, playerVelocity, isGrounded, isCrouching, cameraPosition>>

rayVars == <<currentHit>>

startVars == <<sceneConfig, startPhase, loadPromise, cdnProgress, physicsRetries, physicsSystem,
               animateStarted, startGameResult, pendingFrames, initializeCalls>>

vars == <<physVars, gameState, ticks, lastEvent, acceptedClicks, rayVars, startVars>>

-----------------------------------------------------------------------------
(* Bounds of the exploration *)

MaxTicks == 3
MaxHits == 2
MaxPending == 3
HitSpacing == 700

-----------------------------------------------------------------------------
(* Program constants *)

gravity == -9810
groundLevel == -1350
airResistancePct == 98
PLAYER_HEIGHT == 1700
PLAYER_RADIUS == 300
MAX_FLY_HEIGHT == -600
WALK_SPEED == 4000
CROUCH_SPEED == 2000
JUMP_FORCE == 6000
FLY_SPEED == 3000
CROUCH_HEIGHT == 1000
CAMERA_OFFSET == 100
MaxFrameDen == 30
redCubeRadius == 850
redCubeMargin == 500
pushStrength == 5000
bounceMultiplier == 3
pushbackRange == 1500
pushbackMinRange == 10
embedThreshold == 500
escapeDistance == 1000
helloThreshold == 1000
farThreshold == 3000
totalTreasures == 3
raycastDistance == 1000000
groundPlaneSize == 200000
groundPlaneZ == -3000
physicsRetryCount == 3

polygonBoundary == << <<4350, -100>>, <<600, -4060>>, <<-4150, 340>>, <<-150, 4500>> >>

redCubePos == [x |-> -516, y |-> 80, z |-> -588]

initialPosition == [x |-> 3300, y |-> -100, z |-> 500]

(* camera.position.set(2.842, 2.2, 4.702) in init *)
initialCameraPosition == [x |-> 2842, y |-> 2200, z |-> 4702]

cubeProgression == <<"helloCube", "newCube", "anotherCube2">>

(* The scene meshes a ray can return, with the userData the click handler  *)
(* reads and the material opacity (in percent) the ray selection reads.    *)
(* Clue positions are the ones createGameObjects sets.                     *)
SceneObjects ==
    [ helloCube    |-> [name |-> "helloCube", title |-> "Hello Cube", hasUrl |-> TRUE,
                        hasLevel |-> TRUE, level |-> 0, opacity |-> 80,
                        position |-> [x |-> 2842, y |-> -428, z |-> -298]],
      newCube      |-> [name |-> "newCube", title |-> "Second Clue", hasUrl |-> TRUE,
                        hasLevel |-> TRUE, level |-> 1, opacity |-> 80,
                        position |-> [x |-> -2177, y |-> -36, z |-> 2713]],
      anotherCube2 |-> [name |-> "anotherCube2", title |-> "Final Clue", hasUrl |-> TRUE,
                        hasLevel |-> TRUE, level |-> 2, opacity |-> 80,
                        position |-> [x |-> -97, y |-> -114, z |-> 209]],
      redCube      |-> [name |-> "", title |-> "", hasUrl |-> FALSE,
                        hasLevel |-> FALSE, level |-> -1, opacity |-> 90,
                        position |-> redCubePos],
      boundaryCube |-> [name |-> "boundaryCube", title |-> "", hasUrl |-> FALSE,
                        hasLevel |-> FALSE, level |-> -1, opacity |-> 30,
                        position |-> [x |-> 152, y |-> 32, z |-> 362]],
      accurate_ground_plane |->
                       [name |-> "accurate_ground_plane", title |-> "", hasUrl |-> FALSE,
                        hasLevel |-> FALSE, level |-> -1, opacity |-> 0,
                        position |-> [x |-> 0, y |-> groundLevel, z |-> groundPlaneZ]] ]

ClueNames == {"helloCube", "newCube", "anotherCube2"}

(* What RaycastManager.update hands to the click handler: a node, or a     *)
(* miss (hasHit false, object null).                                       *)
Hits == ClueNames \cup {"redCube", "none"}

-----------------------------------------------------------------------------
(* Arithmetic *)

NaN == 0 - 999999999

IsNum(v) == v # NaN

Abs(a) == IF a < 0 THEN -a ELSE a

Max(a, b) == IF a >= b THEN a ELSE b

(* a / b rounded to nearest, b > 0 *)
RoundDiv(a, b) == IF a >= 0 THEN (2 * a + b) \div (2 * b) ELSE -((2 * (-a) + b) \div (2 * b))

AddF(a, b) == IF IsNum(a) /\ IsNum(b) THEN a + b ELSE NaN

RECURSIVE SqrtIter(_, _, _)
SqrtIter(n, lo, hi) ==
    IF lo >= hi THEN lo
    ELSE LET mid == (lo + hi + 1) \div 2
         IN  IF mid * mid <= n THEN SqrtIter(n, mid, hi) ELSE SqrtIter(n, lo, mid - 1)

(* Math.sqrt, rounded down *)
Sqrt(n) == SqrtIter(n, 0, 32767)

(* dx*dx + dy*dy + dz*dz of the offset a - b; NaN when a coordinate is NaN *)
DistSq(a, b) ==
    IF IsNum(a.x) /\ IsNum(a.y) /\ IsNum(a.z)
    THEN (a.x - b.x) * (a.x - b.x) + (a.y - b.y) * (a.y - b.y) + (a.z - b.z) * (a.z - b.z)
    ELSE NaN

(* "Math.sqrt(d2) < r": false for NaN, as every comparison with NaN *)
DistLess(d2, r) == IsNum(d2) /\ d2 < r * r

(* Math.sin / Math.cos of the yaw angles the model draws, in 1/1000 *)
Sin(deg) == CASE deg = 0 -> 0 [] deg = 90 -> 1000 [] deg = 180 -> 0 [] deg = 270 -> -1000

Cos(deg) == CASE deg = 0 -> 1000 [] deg = 90 -> 0 [] deg = 180 -> -1000 [] deg = 270 -> 0

(* distance in 1/10000 units, for the places that divide by it *)
Sqrt10(d2) == Sqrt(d2 * 100)

-----------------------------------------------------------------------------
(* PhysicsSystem: one frame.  A player state is                            *)
(*   s = [pos, vel, grounded, crouching];                                  *)
(* an input snapshot is                                                    *)
(*   in = [forward, right, space, shift, keyC, yaw, den]                   *)
(* (moveDir.forward / moveDir.right in 1/1000, the keys held, window.yaw   *)
(* in degrees, and the frame's dt = 1/den).                                *)

(* window.PLAYER_RADIUS above the ground plane *)
floorY == groundLevel + PLAYER_RADIUS

ceilingY == MAX_FLY_HEIGHT + PLAYER_HEIGHT \div 2

safeDistance == redCubeRadius + PLAYER_RADIUS + redCubeMargin

isPointInPolygon(point) ==
    LET n == Len(polygonBoundary)
        Crossing(i) ==
            LET j  == IF i = 1 THEN n ELSE i - 1
                xi == polygonBoundary[i][1]
                zi == polygonBoundary[i][2]
                xj == polygonBoundary[j][1]
                zj == polygonBoundary[j][2]
            IN  /\ (zi > point.z) # (zj > point.z)
                /\ IF zj - zi > 0
                   THEN (point.x - xi) * (zj - zi) < (xj - xi) * (point.z - zi)
                   ELSE (point.x - xi) * (zj - zi) > (xj - xi) * (point.z - zi)
    IN  /\ IsNum(point.x)
        /\ IsNum(point.z)
        /\ Cardinality({i \in 1..n : Crossing(i)}) % 2 = 1

(* a polygon test that lets the candidate through (for comparison) *)
checkPolygonBoundaryCollision_passes(position, current) ==
    IF isPointInPolygon(position)
    THEN [collision |-> FALSE, position |-> position, pushback |-> [x |-> 0, y |-> 0, z |-> 0]]
    ELSE [collision |-> TRUE, position |-> [current EXCEPT !.x = position.x],
          pushback |-> [x |-> 0, y |-> 0, z |-> 0]]

(* current is this.playerPosition, which the collision result aliases *)
checkPolygonBoundaryCollision(position, current) ==
    IF isPointInPolygon(position)
    THEN [collision |-> FALSE, position |-> position, pushback |-> [x |-> 0, y |-> 0, z |-> 0]]
    ELSE [collision |-> TRUE, position |-> current, pushback |-> [x |-> 0, y |-> 0, z |-> 0]]

wouldCollideWithRedCube(p) == DistLess(DistSq(p, redCubePos), safeDistance)

(* velocity after applyCollisionPushback, computed from this.playerPosition *)
applyCollisionPushback(pos, vel) ==
    LET d2 == DistSq(pos, redCubePos)
    IN  IF DistLess(d2, pushbackRange) /\ d2 > pushbackMinRange * pushbackMinRange
        THEN LET distance == Sqrt10(d2)
                 pushX == RoundDiv((pos.x - redCubePos.x) * pushStrength * 10, distance)
                 pushZ == RoundDiv((pos.z - redCubePos.z) * pushStrength * 10, distance)
             IN  [vel EXCEPT !.x = pushX * bounceMultiplier, !.z = pushZ * bounceMultiplier]
        ELSE vel

forcePlayerOutOfRedCube(s) ==
    LET d2 == DistSq(s.pos, redCubePos)
    IN  IF DistLess(d2, embedThreshold)
        THEN LET distance == Sqrt10(d2)
                 escapeX == IF distance = 0 THEN NaN
                            ELSE RoundDiv((s.pos.x - redCubePos.x) * escapeDistance * 10, distance)
                 escapeZ == IF distance = 0 THEN NaN
                            ELSE RoundDiv((s.pos.z - redCubePos.z) * escapeDistance * 10, distance)
             IN  [s EXCEPT !.pos.x = AddF(redCubePos.x, escapeX),
                           !.pos.z = AddF(redCubePos.z, escapeZ),
                           !.vel.x = 0, !.vel.z = 0]
        ELSE s

handleCrouching(s, in) ==
    IF in.keyC /\ ~s.crouching /\ s.grounded THEN [s EXCEPT !.crouching = TRUE]
    ELSE IF ~in.keyC /\ s.crouching THEN [s EXCEPT !.crouching = FALSE]
    ELSE s

(* a movement pass that keeps the previous velocity when there is no input *)
(* (for comparison)                                                        *)
handleMovement_inertia(s, in) ==
    IF Abs(in.forward) > 100 \/ Abs(in.right) > 100
    THEN LET speed == IF s.crouching THEN CROUCH_SPEED ELSE WALK_SPEED
             targetVelX == RoundDiv(RoundDiv(-Sin(in.yaw) * in.forward + Cos(in.yaw) * in.right, 1000) * speed, 1000)
             targetVelZ == RoundDiv(RoundDiv(-Cos(in.yaw) * in.forward - Sin(in.yaw) * in.right, 1000) * speed, 1000)
         IN  [s.vel EXCEPT !.x = targetVelX, !.z = targetVelZ]
    ELSE s.vel

(* velocity after handleMovement *)
handleMovement(s, in) ==
    IF Abs(in.forward) > 100 \/ Abs(in.right) > 100
    THEN LET speed == IF s.crouching THEN CROUCH_SPEED ELSE WALK_SPEED
             forwardX == -Sin(in.yaw)
             forwardZ == -Cos(in.yaw)
             rightX   == Cos(in.yaw)
             rightZ   == -Sin(in.yaw)
             targetVelX == RoundDiv(RoundDiv(forwardX * in.forward + rightX * in.right, 1000) * speed, 1000)
             targetVelZ == RoundDiv(RoundDiv(forwardZ * in.forward + rightZ * in.right, 1000) * speed, 1000)
         IN  [s.vel EXCEPT !.x = targetVelX, !.z = targetVelZ]
    ELSE [s.vel EXCEPT !.x = 0, !.z = 0]

(* a vertical pass that jumps whenever Space is held (for comparison) *)
handleVerticalMovement_alwaysJump(s, in) ==
    LET vy == IF in.space THEN JUMP_FORCE
              ELSE IF in.shift /\ ~s.grounded THEN -FLY_SPEED
              ELSE s.vel.y
    IN  IF s.pos.y > ceilingY
        THEN [s EXCEPT !.pos.y = ceilingY, !.vel.y = IF vy > 0 THEN 0 ELSE vy]
        ELSE [s EXCEPT !.vel.y = vy]

handleVerticalMovement(s, in) ==
    LET vy == IF in.space
              THEN IF s.grounded THEN JUMP_FORCE
                   ELSE IF s.pos.y < MAX_FLY_HEIGHT THEN Max(s.vel.y, FLY_SPEED)
                   ELSE s.vel.y
              ELSE IF in.shift /\ ~s.grounded THEN -FLY_SPEED
              ELSE s.vel.y
    IN  IF s.pos.y > ceilingY
        THEN [s EXCEPT !.pos.y = ceilingY, !.vel.y = IF vy > 0 THEN 0 ELSE vy]
        ELSE [s EXCEPT !.vel.y = vy]

(* a ground pass that forgets the player radius (for comparison) *)
groundCollision_noRadius(s) ==
    IF s.pos.y <= groundLevel - PLAYER_RADIUS
    THEN [s EXCEPT !.pos.y = groundLevel - PLAYER_RADIUS, !.vel.y = 0, !.grounded = TRUE]
    ELSE [s EXCEPT !.grounded = FALSE]

(* "Ground collision (always check this last)" *)
groundCollision(s) ==
    IF s.pos.y <= floorY
    THEN [s EXCEPT !.pos.y = floorY, !.vel.y = 0, !.grounded = TRUE]
    ELSE [s EXCEPT !.grounded = FALSE]

(* an integration that applies gravity twice (for comparison) *)
integrateVelocity_twice(vel, den) ==
    [x |-> RoundDiv(vel.x * airResistancePct, 100),
     y |-> vel.y + 2 * RoundDiv(gravity, den),
     z |-> RoundDiv(vel.z * airResistancePct, 100)]

(* velocity += acceleration * dt with acceleration = (0, gravity, 0), then *)
(* the air resistance on x and z                                           *)
integrateVelocity(vel, den) ==
    [x |-> RoundDiv(vel.x * airResistancePct, 100),
     y |-> vel.y + RoundDiv(gravity, den),
     z |-> RoundDiv(vel.z * airResistancePct, 100)]

candidatePosition(pos, vel, den) ==
    [x |-> AddF(pos.x, RoundDiv(vel.x, den)),
     y |-> AddF(pos.y, RoundDiv(vel.y, den)),
     z |-> AddF(pos.z, RoundDiv(vel.z, den))]

(* a resolver with a counter of its own: every other frame it lets a move  *)
(* into the red cube's safety distance through (for comparison)            *)
resolveCollisions_counting(s, newPosition) ==
    LET polygonCollision == checkPolygonBoundaryCollision(newPosition, s.pos)
    IN  IF polygonCollision.collision
        THEN [s EXCEPT !.pos = polygonCollision.position, !.vel = polygonCollision.pushback]
        ELSE IF wouldCollideWithRedCube(newPosition) /\ ticks % 2 = 0
             THEN [s EXCEPT !.vel = applyCollisionPushback(s.pos, [s.vel EXCEPT !.x = 0, !.z = 0])]
             ELSE [s EXCEPT !.pos = newPosition]

(* the polygon / red cube stage of update: the state after it *)
resolveCollisions(s, newPosition) ==
    LET polygonCollision == checkPolygonBoundaryCollision(newPosition, s.pos)
    IN  IF polygonCollision.collision
        THEN [s EXCEPT !.pos = polygonCollision.position, !.vel = polygonCollision.pushback]
        ELSE IF wouldCollideWithRedCube(newPosition)
             THEN [s EXCEPT !.vel = applyCollisionPushback(s.pos, [s.vel EXCEPT !.x = 0, !.z = 0])]
             ELSE [s EXCEPT !.pos = newPosition]

(* the position updateCamera writes to window.camera *)
updateCamera(s) ==
    [x |-> s.pos.x,
     y |-> AddF(s.pos.y, (IF s.crouching THEN CROUCH_HEIGHT \div 2 ELSE PLAYER_HEIGHT \div 2)
                         + CAMERA_OFFSET),
     z |-> s.pos.z]

(* an update whose camera read comes before the ground pass (for comparison) *)
update_cameraEarly(s, in) ==
    LET s1 == [s EXCEPT !.vel = handleMovement(s, in)]
        s2 == handleVerticalMovement(s1, in)
        s3 == [s2 EXCEPT !.vel = integrateVelocity(s2.vel, in.den)]
        newPosition == candidatePosition(s3.pos, s3.vel, in.den)
        s4 == resolveCollisions(s3, newPosition)
        s5 == groundCollision(s4)
        s6 == handleCrouching(s5, in)
        s7 == forcePlayerOutOfRedCube(s6)
    IN  [post |-> s7, cand |-> newPosition, integrated |-> s3, resolved |-> s4, grounded |-> s6,
         camera |-> updateCamera(s4)]

(* PhysicsSystem.update(dt): the player state after the frame, with the    *)
(* frame's candidate position, the intermediate states of its steps and    *)
(* the camera position it writes                                           *)
update(s, in) ==
    LET s1 == [s EXCEPT !.vel = handleMovement(s, in)]
        s2 == handleVerticalMovement(s1, in)
        s3 == [s2 EXCEPT !.vel = integrateVelocity(s2.vel, in.den)]
        newPosition == candidatePosition(s3.pos, s3.vel, in.den)
        s4 == resolveCollisions(s3, newPosition)
        s5 == groundCollision(s4)
        s6 == handleCrouching(s5, in)
        s7 == forcePlayerOutOfRedCube(s6)
    IN  [post |-> s7, cand |-> newPosition, integrated |-> s3, resolved |-> s4, grounded |-> s6,
         camera |-> updateCamera(s7)]

(* The statements of update that call out of PhysicsSystem and so can      *)
(* raise: window.getMoveInput() in handleMovement, the position logging of *)
(* checkPolygonBoundaryCollision (reached when the candidate is outside    *)
(* the polygon), the window.redCube reads of wouldCollideWithRedCube       *)
(* (reached when it is inside) and window.camera in updateCamera.          *)
FaultPoints == {"handleMovement", "checkPolygonBoundaryCollision", "wouldCollideWithRedCube",
                "updateCamera"}

(* the player state update's catch block is entered with when the          *)
(* statement at raises: what the statements before it have written         *)
updateInterrupted(s, in, at) ==
    LET s1 == [s EXCEPT !.vel = handleMovement(s, in)]
        s2 == handleVerticalMovement(s1, in)
        s3 == [s2 EXCEPT !.vel = integrateVelocity(s2.vel, in.den)]
        newPosition == candidatePosition(s3.pos, s3.vel, in.den)
        s4 == resolveCollisions(s3, newPosition)
        s5 == groundCollision(s4)
        s6 == handleCrouching(s5, in)
        s7 == forcePlayerOutOfRedCube(s6)
    IN  [reached |-> CASE at = "handleMovement" -> TRUE
                      [] at = "checkPolygonBoundaryCollision" -> ~isPointInPolygon(newPosition)
                      [] at = "wouldCollideWithRedCube" -> isPointInPolygon(newPosition)
                      [] at = "updateCamera" -> TRUE,
         post |-> CASE at = "handleMovement" -> s
                   [] at = "checkPolygonBoundaryCollision" -> s3
                   [] at = "wouldCollideWithRedCube" -> s3
                   [] at = "updateCamera" -> s7]

-----------------------------------------------------------------------------
(* Progression: gameState and the click handler *)

(* the clickability test of the first revision: no gameStarted gate *)
isCubeClickable_levelOnly(cube, gs) ==
    cube.hasLevel /\ cube.level = gs.currentLevel

(* a clickability test that forgets the level (for comparison) *)
isCubeClickable_anyLevel(cube, gs) ==
    cube.hasLevel /\ gs.gameStarted

isCubeClickable(cube, gs) ==
    IF ~cube.hasLevel THEN FALSE
    ELSE gs.gameStarted /\ cube.level = gs.currentLevel

isNewCube(cube) == cube.title = "Second Clue"

(* an advance that skips a level (for comparison) *)
advanceGameState_skips(gs) ==
    IF gs.currentLevel < Len(cubeProgression) - 1
    THEN [gs EXCEPT !.currentLevel = gs.currentLevel + 2,
                    !.completedLevels = Append(gs.completedLevels, gs.currentLevel),
                    !.treasuresFound = gs.treasuresFound + 1]
    ELSE gs

advanceGameState(gs) ==
    LET g1 == IF gs.currentLevel < Len(cubeProgression) - 1
              THEN [gs EXCEPT !.currentLevel = gs.currentLevel + 1,
                              !.completedLevels = Append(gs.completedLevels, (gs.currentLevel + 1) - 1),
                              !.treasuresFound = gs.treasuresFound + 1]
              ELSE gs
    IN  IF g1.currentLevel >= Len(cubeProgression)
        THEN [g1 EXCEPT !.isGameComplete = TRUE, !.treasuresFound = g1.totalTreasures]
        ELSE g1

(* a threshold that is the same for every clue (for comparison) *)
clickThreshold_uniform(cube) == farThreshold

(* the proximity threshold handleClick picks for a node *)
clickThreshold(cube) ==
    IF isNewCube(cube) THEN farThreshold
    ELSE IF cube.name = "anotherCube2" THEN farThreshold
    ELSE helloThreshold

(* InteractionManager.handleClick(hitInfo, playerPosition): the value it   *)
(* returns and the gameState it leaves                                     *)
handleClick(hit, playerPos, gs) ==
    IF hit = "none" THEN [ret |-> FALSE, gameState |-> gs]
    ELSE LET cube == SceneObjects[hit]
             d2 == DistSq(playerPos, cube.position)
         IN  IF DistLess(d2, clickThreshold(cube)) /\ cube.title # "" /\ cube.hasUrl
             THEN IF isCubeClickable(cube, gs)
                  THEN [ret |-> TRUE, gameState |-> advanceGameState(gs)]
                  ELSE [ret |-> FALSE, gameState |-> gs]
             ELSE [ret |-> FALSE, gameState |-> gs]

startTreasureHunt(gs) ==
    IF ~gs.gameStarted THEN [gs EXCEPT !.gameStarted = TRUE] ELSE gs

(* TopUIIcons.handleHelpClick / the KeyQ shortcut: the clue whose hint is  *)
(* shown, "" when currentLevel indexes no clue                             *)
handleHelpClick(gs) ==
    IF gs.currentLevel + 1 \in 1..Len(cubeProgression)
    THEN cubeProgression[gs.currentLevel + 1]
    ELSE ""

-----------------------------------------------------------------------------
(* RaycastManager.  A ray is [origin, direction] with the direction a unit *)
(* vector in 1/1000; an intersection is [object, distance] and the list    *)
(* raycaster.intersectObjects returns is sorted by distance.               *)

(* JavaScript's Infinity and -Infinity, as read by the fallback's division *)
Infinity == 999999998

IsFinite(v) == v # NaN /\ v # Infinity /\ v # -Infinity

(* a / b for any b # 0, rounded to nearest *)
RoundDivS(a, b) == IF b > 0 THEN RoundDiv(a, b) ELSE RoundDiv(-a, -b)

(* origin + direction * (num / den), one coordinate; den = 0 is a division *)
(* by zero: the factor is +-Infinity, or NaN when num is zero too          *)
rayAt(o, d, num, den) ==
    IF den # 0 THEN o + RoundDivS(d * num, den)
    ELSE IF num = 0 \/ d = 0 THEN NaN
    ELSE IF (num > 0) = (d > 0) THEN Infinity
    ELSE -Infinity

(* where the ray meets the mesh accurate_ground_plane (a 200 x 200 plane   *)
(* at groundLevel around (0, -3)), as a one-element list, or <<>>          *)
groundPlaneHit(ray) ==
    LET num == groundLevel - ray.origin.y
        den == ray.direction.y
    IN  IF den = 0 THEN <<>>
        ELSE LET distance == RoundDivS(num * 1000, den)
                 x == rayAt(ray.origin.x, ray.direction.x, num, den)
                 z == rayAt(ray.origin.z, ray.direction.z, num, den)
             IN  IF /\ distance >= 0
                    /\ distance <= raycastDistance
                    /\ 2 * Abs(x) <= groundPlaneSize
                    /\ 2 * Abs(z - groundPlaneZ) <= groundPlaneSize
                 THEN << [object |-> "accurate_ground_plane", distance |-> distance] >>
                 ELSE <<>>

(* raycaster.intersectObjects(meshes): the meshes in the ray's path, given *)
(* nearest first, with the ground plane put in at its distance             *)
intersectObjects(ray, path) ==
    LET plane  == groundPlaneHit(ray)
        before == SelectSeq(path, LAMBDA h : plane = <<>> \/ h.distance <= plane[1].distance)
        after  == SelectSeq(path, LAMBDA h : plane # <<>> /\ h.distance > plane[1].distance)
    IN  before \o plane \o after

getObjectType(objectName) ==
    LET object == SceneObjects[objectName]
    IN  IF object.title # "" THEN "interactive"
        ELSE IF object.name = "accurate_ground_plane" THEN "accurate_ground_plane"
        ELSE IF object.name = "boundaryCube" THEN "boundarycube"
        ELSE "cube"

(* the loop "for (const hit of intersects)" from its i-th element on, with *)
(* the bestHit it has so far                                               *)
RECURSIVE selectBestHit(_, _, _)
selectBestHit(intersects, i, bestHit) ==
    IF i > Len(intersects) THEN bestHit
    ELSE LET hit == intersects[i]
             object == SceneObjects[hit.object]
         IN  IF object.title # "" THEN hit
             ELSE IF object.name # "accurate_ground_plane" /\ object.opacity > 0
                  THEN selectBestHit(intersects, i + 1, hit)
                  ELSE selectBestHit(intersects, i + 1, bestHit)

(* rayOrigin + rayDirection * t with t = (GROUND_LEVEL - rayOrigin.y) /    *)
(* rayDirection.y                                                          *)
groundIntersection(ray) ==
    LET num == groundLevel - ray.origin.y
        den == ray.direction.y
    IN  [x |-> rayAt(ray.origin.x, ray.direction.x, num, den),
         y |-> rayAt(ray.origin.y, ray.direction.y, num, den),
         z |-> rayAt(ray.origin.z, ray.direction.z, num, den)]

performRaycast(ray, intersects) ==
    IF Len(intersects) > 0
    THEN LET bestHit == selectBestHit(intersects, 1, intersects[1])
         IN  [hasHit |-> TRUE,
              point |-> [x |-> ray.origin.x + RoundDiv(ray.direction.x * bestHit.distance, 1000),
                         y |-> ray.origin.y + RoundDiv(ray.direction.y * bestHit.distance, 1000),
                         z |-> ray.origin.z + RoundDiv(ray.direction.z * bestHit.distance, 1000)],
              object |-> bestHit.object,
              distance |-> bestHit.distance,
              objectType |-> getObjectType(bestHit.object)]
    ELSE [hasHit |-> FALSE,
          point |-> groundIntersection(ray),
          object |-> "none",
          distance |-> IF ray.direction.y = 0
                       THEN (IF groundLevel = ray.origin.y THEN NaN ELSE Infinity)
                       ELSE Abs(RoundDivS((groundLevel - ray.origin.y) * 1000, ray.direction.y)),
          objectType |-> "ground"]

-----------------------------------------------------------------------------
(* Session start: startGame, init, loadSplatMesh, completeSplatSetup,      *)
(* createGameObjects, initializeSystems.  A session is                     *)
(*   v = [phase, promise, progress, retries, physics, animate, result,     *)
(*        frames, calls]                                                   *)
(* (the values of startPhase, loadPromise, cdnProgress in 1/10 percent,    *)
(* physicsRetries, physicsSystem, animateStarted, startGameResult,         *)
(* pendingFrames, initializeCalls).                                        *)

(* the world configurations a session may be given: the shipped one, and   *)
(* ones with a part missing                                                *)
Configs == {"ok", "noInitialPosition", "noSplat", "noSplatPosition", "noClues", "noObstacles"}

(* what the SplatMesh constructor can do with a url: raise, or start to    *)
(* stream the asset                                                        *)
SplatOutcomes == {"throws", "streams"}

(* the fractions (in percent) onProgress reports *)
ProgressSteps == {25, 50, 75, 100}

(* a catch block that starts the frame loop all the same (for comparison) *)
startGameCatch_animates(v) ==
    [v EXCEPT !.phase = "failed", !.animate = TRUE, !.frames = 1, !.result = "resolved"]

(* startGame's catch block: the error is logged, the loading screen hidden *)
(* and nothing is thrown on                                                *)
startGameCatch(v) == [v EXCEPT !.phase = "failed", !.result = "resolved"]

(* the rest of init and of startGame once the physics loop is left:        *)
(* setupEventListeners, animate()                                          *)
finishStart(v) ==
    [v EXCEPT !.phase = "running", !.animate = TRUE, !.frames = 1, !.result = "resolved"]

(* a physics loop that gives up one failure later (for comparison) *)
initializeSystems_oneMore(v, config) ==
    IF config # "noInitialPosition"
    THEN finishStart([v EXCEPT !.physics = "initialized", !.calls = v.calls + 1])
    ELSE IF v.retries - 1 < 0
         THEN finishStart([v EXCEPT !.retries = 0, !.physics = "null", !.calls = v.calls + 1])
         ELSE [v EXCEPT !.retries = v.retries - 1, !.physics = "constructed",
                        !.phase = "physicsBackoff", !.calls = v.calls + 1]

(* one pass of the "while (physicsRetries > 0)" loop of initializeSystems  *)
initializeSystems(v, config) ==
    IF config # "noInitialPosition"
    THEN finishStart([v EXCEPT !.physics = "initialized", !.calls = v.calls + 1])
    ELSE IF v.retries - 1 = 0
         THEN finishStart([v EXCEPT !.retries = 0, !.physics = "null", !.calls = v.calls + 1])
         ELSE [v EXCEPT !.retries = v.retries - 1, !.physics = "constructed",
                        !.phase = "physicsBackoff", !.calls = v.calls + 1]

(* init after "await loadSplatMesh": createGameObjects reads the clues and *)
(* obstacles[0] of the configuration, then initializeSystems               *)
createGameObjects(v, config) ==
    IF config \in {"noClues", "noObstacles"} THEN startGameCatch(v)
    ELSE initializeSystems(v, config)

(* the executor of the promise loadSplatMesh returns: the CDN url first,   *)
(* the local url when constructing the CDN mesh raises, reject when the    *)
(* local one raises too                                                    *)
loadSplatMesh(v, config, cdn, local) ==
    IF config # "noSplat" /\ cdn = "streams"
    THEN [v EXCEPT !.phase = "loadingCDN", !.promise = "pending", !.progress = 150,
                   !.result = "pending"]
    ELSE IF config # "noSplat" /\ local = "streams"
         THEN [v EXCEPT !.phase = "loadingLocal", !.promise = "pending", !.progress = 550,
                        !.result = "pending"]
         ELSE startGameCatch([v EXCEPT !.promise = "rejected", !.progress = 0])

(* onLoad and completeSplatSetup up to its 200 ms wait; when setting the   *)
(* transform raises, its catch block calls reject, which is not defined    *)
(* there, and the promise of loadSplatMesh is left as it is                *)
completeSplatSetup(v, config) ==
    IF config = "noSplatPosition"
    THEN [v EXCEPT !.phase = "stalled", !.progress = 900]
    ELSE [v EXCEPT !.phase = "splatDelay", !.progress = 950]

-----------------------------------------------------------------------------
(* Inputs *)

(* the meshes of the scene other than the ground plane *)
PathMeshes == {"helloCube", "newCube", "anotherCube2", "redCube", "boundaryCube"}

(* where the camera can be: above the spawn point, above a standing and    *)
(* above a crouching player                                                *)
RayOrigins ==
    { [x |-> 3300, y |-> 850, z |-> 500],
      [x |-> 3300, y |-> -100, z |-> 500],
      [x |-> 811, y |-> -450, z |-> -548] }

(* view directions: level (pitch 0) at three yaw angles, straight down,    *)
(* straight up, and pitched down and up                                    *)
RayDirections ==
    { [x |-> 0, y |-> 0, z |-> -1000],
      [x |-> 1000, y |-> 0, z |-> 0],
      [x |-> 600, y |-> 0, z |-> -800],
      [x |-> 0, y |-> -1000, z |-> 0],
      [x |-> 0, y |-> 1000, z |-> 0],
      [x |-> 0, y |-> -600, z |-> -800],
      [x |-> -800, y |-> -600, z |-> 0],
      [x |-> 0, y |-> 600, z |-> -800] }

Rays == [origin : RayOrigins, direction : RayDirections]

(* the meshes in a ray's path, nearest first: up to MaxHits different      *)
(* meshes, the i-th one hit HitSpacing * i away                            *)
Paths ==
    { p \in UNION { [1..n -> PathMeshes] : n \in 0..MaxHits } :
         \A i, j \in DOMAIN p : i # j => p[i] # p[j] }

pathHits(p) == [i \in DOMAIN p |-> [object |-> p[i], distance |-> HitSpacing * i]]

In(f, r, sp, sh, c, y, d) ==
    [forward |-> f, right |-> r, space |-> sp, shift |-> sh, keyC |-> c, yaw |-> y, den |-> d]

(* the snapshots a frame of the bounded runs may read: keyboard (digital), *)
(* joystick (analog, around the 0.1 dead zone), jump / fly / descend /     *)
(* crouch keys, two yaw angles, the capped dt and a 60 Hz dt               *)
Inputs ==
    { In(0, 0, FALSE, FALSE, FALSE, 0, MaxFrameDen),
      In(1000, 0, FALSE, FALSE, FALSE, 0, MaxFrameDen),
      In(-1000, 0, FALSE, FALSE, FALSE, 0, MaxFrameDen),
      In(0, -1000, FALSE, FALSE, FALSE, 0, MaxFrameDen),
      In(0, 1000, FALSE, FALSE, FALSE, 0, MaxFrameDen),
      In(-1000, 1000, FALSE, FALSE, FALSE, 0, MaxFrameDen),
      In(0, 0, TRUE, FALSE, FALSE, 0, MaxFrameDen),
      In(1000, 0, TRUE, FALSE, FALSE, 0, MaxFrameDen),
      In(0, 0, FALSE, TRUE, FALSE, 0, MaxFrameDen),
      In(1000, 0, FALSE, FALSE, TRUE, 0, MaxFrameDen),
      In(100, 0, FALSE, FALSE, FALSE, 0, MaxFrameDen),
      In(500, 0, FALSE, FALSE, FALSE, 90, MaxFrameDen),
      In(0, -1000, FALSE, FALSE, FALSE, 0, 2 * MaxFrameDen) }

(* the walking runs: no key is touched until the avatar has landed, then   *)
(* W, S or A is held, at the capped dt                                     *)
WalkInputs(grounded) ==
    IF grounded
    THEN { In(1000, 0, FALSE, FALSE, FALSE, 0, MaxFrameDen),
           In(-1000, 0, FALSE, FALSE, FALSE, 0, MaxFrameDen),
           In(0, -1000, FALSE, FALSE, FALSE, 0, MaxFrameDen) }
    ELSE { In(0, 0, FALSE, FALSE, FALSE, 0, MaxFrameDen) }

-----------------------------------------------------------------------------
(* State *)

Cur == [pos |-> playerPosition, vel |-> playerVelocity,
        grounded |-> isGrounded, crouching |-> isCrouching]

NoEvent == [kind |-> "none"]

(* RaycastManager.currentHit = null *)
NoHit == [hasHit |-> FALSE, objectType |-> "void"]

InitGameState ==
    [currentLevel |-> 0, completedLevels |-> <<>>, isGameComplete |-> FALSE,
     gameStarted |-> FALSE, treasuresFound |-> 0, totalTreasures |-> totalTreasures]

(* where a bounded run starts: the configured spawn point; the same fall   *)
(* twelve idle frames later, about to land; and a standing position of the *)
(* walking runs next to the red cube                                       *)
StartStates ==
    { [pos |-> initialPosition, vel |-> [x |-> 0, y |-> 0, z |-> 0],
       grounded |-> FALSE, crouching |-> FALSE],
      [pos |-> [initialPosition EXCEPT !.y = -951], vel |-> [x |-> 0, y |-> -3924, z |-> 0],
       grounded |-> FALSE, crouching |-> FALSE],
      [pos |-> [x |-> 811, y |-> floorY, z |-> -548], vel |-> [x |-> 0, y |-> 0, z |-> 0],
       grounded |-> TRUE, crouching |-> FALSE] }

(* the session after a successful startGame: the state the frame loop and  *)
(* the click handlers start from                                           *)
Started ==
    /\ sceneConfig = "ok"
    /\ startPhase = "running"
    /\ loadPromise = "resolved"
    /\ cdnProgress = 1000
    /\ physicsRetries = physicsRetryCount
    /\ physicsSystem = "initialized"
    /\ animateStarted = TRUE
    /\ startGameResult = "resolved"
    /\ pendingFrames = 1
    /\ initializeCalls = 1

InitAt(s) ==
    /\ playerPosition = s.pos
    /\ playerVelocity = s.vel
    /\ isGrounded = s.grounded
    /\ isCrouching = s.crouching
    /\ cameraPosition = initialCameraPosition
    /\ currentHit = NoHit
    /\ gameState = InitGameState
    /\ ticks = 0
    /\ lastEvent = NoEvent
    /\ acceptedClicks = {}
    /\ Started

(* after the PhysicsSystem constructor and initialize() *)
Init == \E s \in StartStates : InitAt(s)

InitGame == InitAt([pos |-> initialPosition, vel |-> [x |-> 0, y |-> 0, z |-> 0],
                    grounded |-> FALSE, crouching |-> FALSE])

Commit(r) ==
    /\ playerPosition' = r.post.pos
    /\ playerVelocity' = r.post.vel
    /\ isGrounded' = r.post.grounded
    /\ isCrouching' = r.post.crouching
    /\ cameraPosition' = r.camera

(* no movement input and no key held *)
IsZeroInput(in) == in.forward = 0 /\ in.right = 0 /\ ~in.space /\ ~in.shift /\ ~in.keyC

(* history: the run of consecutive zero-input frames begun airborne that   *)
(* the frame with input in belongs to: the vertical velocity the run       *)
(* started with, its number of frames and the sum of their dt in 1/60 s    *)
fallRun(in) ==
    IF IsZeroInput(in) /\ ~isGrounded
    THEN IF lastEvent.kind = "tick" /\ lastEvent.run.n > 0
         THEN [vy0 |-> lastEvent.run.vy0, n |-> lastEvent.run.n + 1,
               sum60 |-> lastEvent.run.sum60 + 60 \div in.den]
         ELSE [vy0 |-> playerVelocity.y, n |-> 1, sum60 |-> 60 \div in.den]
    ELSE [vy0 |-> 0, n |-> 0, sum60 |-> 0]

(* the red cube branch of update was taken for the candidate position *)
cubeCollisionFired(cand) == isPointInPolygon(cand) /\ wouldCollideWithRedCube(cand)

(* one animate() frame: physicsSystem.update(deltaTime) *)
Tick ==
    /\ ticks < MaxTicks
    /\ \E in \in Inputs :
          LET r == update(Cur, in)
          IN  /\ Commit(r)
              /\ lastEvent' = [kind |-> "tick", input |-> in, pre |-> Cur, cand |-> r.cand,
                               integrated |-> r.integrated, resolved |-> r.resolved,
                               grounded |-> r.grounded, run |-> fallRun(in),
                               fired |-> cubeCollisionFired(r.cand),
                               prevFired |-> lastEvent.kind = "tick" /\ lastEvent.fired]
    /\ ticks' = ticks + 1
    /\ UNCHANGED <<gameState, acceptedClicks, rayVars, startVars>>

(* a frame of the unbounded walking runs *)
Walk ==
    /\ \E in \in WalkInputs(isGrounded) : Commit(update(Cur, in))
    /\ lastEvent' = NoEvent
    /\ UNCHANGED <<gameState, ticks, acceptedClicks, rayVars, startVars>>

(* the jumping runs: the vertical keys only (none, Space, Shift), at the    *)
(* capped dt                                                               *)
JumpInputs ==
    { In(0, 0, FALSE, FALSE, FALSE, 0, MaxFrameDen),
      In(0, 0, TRUE, FALSE, FALSE, 0, MaxFrameDen),
      In(0, 0, FALSE, TRUE, FALSE, 0, MaxFrameDen) }

(* a frame of the unbounded jumping runs *)
Jump ==
    /\ \E in \in JumpInputs : Commit(update(Cur, in))
    /\ lastEvent' = NoEvent
    /\ UNCHANGED <<gameState, ticks, acceptedClicks, rayVars, startVars>>

(* the positions handed to setPlayerPosition: the red cube's centre, points *)
(* straight above and below it, points beside it, and oblique offsets, all *)
(* within the embed threshold                                              *)
EmbeddedPositions ==
    { [x |-> redCubePos.x + o[1], y |-> redCubePos.y + o[2], z |-> redCubePos.z + o[3]] :
        o \in { <<0, 0, 0>>, <<0, 100, 0>>, <<0, -300, 0>>, <<300, 0, 0>>, <<0, 0, -400>>,
                <<200, 100, -200>>, <<100, 400, 0>> } }

(* PhysicsSystem.setPlayerPosition(position) *)
SetPlayerPosition ==
    /\ ticks < MaxTicks
    /\ \E p \in EmbeddedPositions :
          /\ playerPosition' = p
          /\ lastEvent' = [kind |-> "setPlayerPosition", position |-> p]
    /\ UNCHANGED <<playerVelocity, isGrounded, isCrouching, cameraPosition, gameState, ticks,
                   acceptedClicks, rayVars, startVars>>

(* the playerPos the click listener hands to handleClick *)
clickPlayerPosition ==
    IF physicsSystem # "null" THEN playerPosition ELSE [x |-> 0, y |-> 0, z |-> 0]

(* the document click listener: handleClick(raycastManager.update(), playerPos) *)
Click ==
    /\ startPhase = "running"
    /\ \E hit \in Hits :
       LET r == handleClick(hit, clickPlayerPosition, gameState)
       IN  /\ gameState' = r.gameState
           /\ lastEvent' = [kind |-> "click", hit |-> hit, accepted |-> r.ret,
                            before |-> gameState, playerPos |-> clickPlayerPosition,
                            repeat |-> /\ lastEvent.kind = "click"
                                       /\ lastEvent.hit = hit
                                       /\ lastEvent.accepted
                                       /\ lastEvent.before.currentLevel + 1 = gameState.currentLevel]
           /\ acceptedClicks' = IF r.ret THEN acceptedClicks \cup {SceneObjects[hit].level}
                                 ELSE acceptedClicks
           /\ UNCHANGED <<physVars, ticks, rayVars, startVars>>

(* the game icon: window.startTreasureHunt() *)
StartTreasureHunt ==
    /\ gameState' = startTreasureHunt(gameState)
    /\ lastEvent' = [kind |-> "start", before |-> gameState]
    /\ UNCHANGED <<physVars, ticks, acceptedClicks, rayVars, startVars>>

(* the help icon or KeyH / KeyQ: a hint request *)
HelpClick ==
    /\ lastEvent' = [kind |-> "hint", cube |-> handleHelpClick(gameState), before |-> gameState]
    /\ UNCHANGED <<physVars, ticks, gameState, acceptedClicks, rayVars, startVars>>

Next == Tick

Spec == Init /\ [][Next]_vars

NextGame == Walk \/ Click \/ StartTreasureHunt \/ HelpClick

SpecGame == InitGame /\ [][NextGame]_vars

(* RaycastManager.update(): currentHit = performRaycast() *)
RaycastUpdate ==
    /\ \E ray \in Rays, p \in Paths :
          LET intersects == intersectObjects(ray, pathHits(p))
          IN  /\ currentHit' = performRaycast(ray, intersects)
              /\ lastEvent' = [kind |-> "raycast", ray |-> ray, intersects |-> intersects]
    /\ UNCHANGED <<physVars, gameState, ticks, acceptedClicks, startVars>>

(* the collision stage of the last frame run once more on the same state   *)
(* and candidate position; the player is left as the frame left it         *)
ResolveAgain ==
    /\ lastEvent.kind = "tick"
    /\ lastEvent' = [kind |-> "replay", cand |-> lastEvent.cand, pre |-> lastEvent.integrated,
                     first |-> groundCollision(lastEvent.resolved),
                     second |-> groundCollision(resolveCollisions(lastEvent.integrated,
                                                                  lastEvent.cand))]
    /\ UNCHANGED <<physVars, gameState, ticks, acceptedClicks, rayVars, startVars>>

(* one animate() frame in which a statement of update raises: the catch    *)
(* block of update logs the error and the frame ends there                 *)
FaultyTick ==
    /\ ticks < MaxTicks
    /\ \E in \in Inputs, at \in FaultPoints :
          LET r == updateInterrupted(Cur, in, at)
          IN  /\ r.reached
              /\ playerPosition' = r.post.pos
              /\ playerVelocity' = r.post.vel
              /\ isGrounded' = r.post.grounded
              /\ isCrouching' = r.post.crouching
              /\ lastEvent' = [kind |-> "fault", at |-> at, input |-> in, pre |-> Cur]
    /\ ticks' = ticks + 1
    /\ UNCHANGED <<cameraPosition, gameState, acceptedClicks, rayVars, startVars>>

Session == [phase |-> startPhase, promise |-> loadPromise, progress |-> cdnProgress,
            retries |-> physicsRetries, physics |-> physicsSystem, animate |-> animateStarted,
            result |-> startGameResult, frames |-> pendingFrames, calls |-> initializeCalls]

SetSession(v) ==
    /\ startPhase' = v.phase
    /\ loadPromise' = v.promise
    /\ cdnProgress' = v.progress
    /\ physicsRetries' = v.retries
    /\ physicsSystem' = v.physics
    /\ animateStarted' = v.animate
    /\ startGameResult' = v.result
    /\ pendingFrames' = v.frames
    /\ initializeCalls' = v.calls
    /\ playerPosition' = IF v.physics = "initialized" THEN initialPosition ELSE playerPosition
    /\ UNCHANGED <<sceneConfig, playerVelocity, isGrounded, isCrouching, cameraPosition,
                   gameState, ticks, lastEvent, acceptedClicks, rayVars>>

(* the landing page, before the play button is pressed: nothing of the     *)
(* session exists yet, the player state is the PhysicsSystem constructor's *)
InitStart ==
    /\ sceneConfig \in Configs
    /\ startPhase = "landing"
    /\ loadPromise = "none"
    /\ cdnProgress = 0
    /\ physicsRetries = physicsRetryCount
    /\ physicsSystem = "undefined"
    /\ animateStarted = FALSE
    /\ startGameResult = "none"
    /\ pendingFrames = 0
    /\ initializeCalls = 0
    /\ playerPosition = [x |-> 0, y |-> 0, z |-> 0]
    /\ playerVelocity = [x |-> 0, y |-> 0, z |-> 0]
    /\ isGrounded = FALSE
    /\ isCrouching = FALSE
    /\ cameraPosition = initialCameraPosition
    /\ currentHit = NoHit
    /\ gameState = InitGameState
    /\ ticks = 0
    /\ lastEvent = NoEvent
    /\ acceptedClicks = {}

(* the play button: startGame(loadingScreen) up to its first wait *)
StartGame ==
    /\ startPhase = "landing"
    /\ \E cdn \in SplatOutcomes, local \in SplatOutcomes :
          SetSession(loadSplatMesh(Session, sceneConfig, cdn, local))

(* the SplatMesh's onProgress callback *)
OnProgress ==
    /\ startPhase \in {"loadingCDN", "loadingLocal"}
    /\ \E pct \in ProgressSteps :
          LET adjustedProgress == IF startPhase = "loadingCDN" THEN 150 + pct * 7
                                  ELSE 550 + pct * 3
          IN  /\ adjustedProgress > cdnProgress
              /\ SetSession([Session EXCEPT !.progress = adjustedProgress])

(* the SplatMesh's onLoad callback *)
OnLoad ==
    /\ startPhase \in {"loadingCDN", "loadingLocal"}
    /\ SetSession(completeSplatSetup(Session, sceneConfig))

(* the asset stream breaks off: the SplatMesh calls neither callback *)
StreamFails ==
    /\ startPhase \in {"loadingCDN", "loadingLocal"}
    /\ SetSession([Session EXCEPT !.phase = "streamFailed"])

(* the 200 ms timer of completeSplatSetup: resolve(), and init goes on *)
SplatDelayElapsed ==
    /\ startPhase = "splatDelay"
    /\ SetSession(createGameObjects([Session EXCEPT !.progress = 1000, !.promise = "resolved"],
                                     sceneConfig))

(* the 1 s timer between two passes of the physics loop *)
PhysicsRetry ==
    /\ startPhase = "physicsBackoff"
    /\ SetSession(initializeSystems(Session, sceneConfig))

(* one invocation of animate(): requestAnimationFrame(animate) first, then  *)
(* the physics update when there is an initialized physicsSystem, then the *)
(* interaction update, the mobile controls and the render; when thrown,    *)
(* interactionManager.update, which the earlier revision of animate calls  *)
(* outside any inner try, raises after the physics update and the outer    *)
(* catch adds setTimeout(() => animate(), 16)                              *)
animate(thrown) ==
    /\ pendingFrames > 0
    /\ LET scheduled == IF thrown THEN 2 ELSE 1
       IN  /\ pendingFrames' = (pendingFrames - 1) + scheduled
           /\ IF physicsSystem = "initialized"
              THEN /\ ticks < MaxTicks
                   /\ \E in \in JumpInputs : Commit(update(Cur, in))
                   /\ ticks' = ticks + 1
              ELSE UNCHANGED <<physVars, ticks>>
           /\ lastEvent' = [kind |-> "frame", physics |-> physicsSystem = "initialized",
                            thrown |-> thrown, scheduled |-> scheduled,
                            pending |-> pendingFrames]
    /\ UNCHANGED <<sceneConfig, startPhase, loadPromise, cdnProgress, physicsRetries,
                   physicsSystem, animateStarted, startGameResult, initializeCalls,
                   gameState, acceptedClicks, rayVars>>

(* a frame whose body runs to its end *)
AnimateFrame == animate(FALSE)

(* a frame whose body raises into the outer catch of animate: the          *)
(* interaction update is reached only with a physicsSystem                 *)
AnimateThrows ==
    /\ pendingFrames < MaxPending
    /\ physicsSystem = "initialized"
    /\ animate(TRUE)

(* the steps of startGame and of the callbacks and timers it waits for *)
NextLoad ==
    StartGame \/ OnProgress \/ OnLoad \/ StreamFails \/ SplatDelayElapsed \/ PhysicsRetry

NextStart == NextLoad \/ AnimateFrame \/ AnimateThrows \/ Click

(* timers fire and callbacks that are due are delivered *)
SpecStart == InitStart /\ [][NextStart]_vars /\ WF_vars(NextLoad)

NextFault == Tick \/ FaultyTick

SpecFault == Init /\ [][NextFault]_vars

NextReplay == Tick \/ ResolveAgain

SpecReplay == Init /\ [][NextReplay]_vars

NextRay == RaycastUpdate

SpecRay == InitGame /\ [][NextRay]_vars

(* the bounded runs with the player placed inside the red cube *)
NextUnstick == Tick \/ SetPlayerPosition

SpecUnstick == InitGame /\ [][NextUnstick]_vars

(* the jumping runs from the spawn point *)
NextJump == Jump

SpecJump == InitGame /\ [][NextJump]_vars

-----------------------------------------------------------------------------
(* Properties *)

Progression(gs) ==
    <<gs.currentLevel, gs.completedLevels, gs.treasuresFound, gs.isGameComplete>>

IsClueClick == lastEvent.kind = "click" /\ lastEvent.hit \in ClueNames

ClickedClue == SceneObjects[lastEvent.hit]

PolygonRejection ==
    (lastEvent.kind = "tick" /\ ~isPointInPolygon(lastEvent.cand)) =>
        /\ playerPosition.x = lastEvent.pre.pos.x
        /\ playerPosition.z = lastEvent.pre.pos.z
        /\ playerVelocity.x = 0
        /\ playerVelocity.z = 0

(* C2 witness: a frame that tried to leave the polygon. *)
PolygonRejectionWitness ==
    /\ lastEvent.kind = "tick"
    /\ ~isPointInPolygon(lastEvent.cand)
    /\ lastEvent.cand.x # lastEvent.pre.pos.x

(* C3 (as claimed): a frame whose candidate position is closer to the red  *)
(* cube than the minimum distance ends the collision stage at least that   *)
(* far from the cube, at the candidate's height, with the horizontal       *)
(* velocity pointing away from the cube and not zero.                      *)
SpherePushback ==
    (/\ lastEvent.kind = "tick"
     /\ isPointInPolygon(lastEvent.cand)
     /\ DistLess(DistSq(lastEvent.cand, redCubePos), safeDistance)) =>
        LET r  == lastEvent.resolved
            dx == lastEvent.cand.x - redCubePos.x
            dz == lastEvent.cand.z - redCubePos.z
        IN  /\ r.pos.y = lastEvent.cand.y
            /\ ~DistLess(DistSq(r.pos, redCubePos), safeDistance)
            /\ dx > 0 => r.vel.x > 0
            /\ dx < 0 => r.vel.x < 0
            /\ dz > 0 => r.vel.z > 0
            /\ dz < 0 => r.vel.z < 0
            /\ r.vel.x # 0 \/ r.vel.z # 0

(* C4: a click on a clue that is not the current level returns false and   *)
(* leaves the progression as it was, at any distance.                      *)
OffLevelClickIsNoop ==
    (IsClueClick /\ ClickedClue.level # lastEvent.before.currentLevel) =>
        /\ ~lastEvent.accepted
        /\ Progression(gameState) = Progression(lastEvent.before)

(* C4 witness: the hunt is on, the player stands within reach of a later   *)
(* clue and clicks it.                                                     *)
OffLevelClickWitness ==
    /\ IsClueClick
    /\ lastEvent.before.gameStarted
    /\ ClickedClue.level > lastEvent.before.currentLevel
    /\ DistLess(DistSq(playerPosition, ClickedClue.position), farThreshold)

(* C5 (as claimed): at every level k, a click on the level-k clue within   *)
(* its threshold, the hunt started, is accepted, raises currentLevel by    *)
(* one and appends k to completedLevels.                                   *)
QualifyingClickAdvances ==
    (/\ IsClueClick
     /\ lastEvent.before.gameStarted
     /\ ClickedClue.level = lastEvent.before.currentLevel
     /\ DistLess(DistSq(playerPosition, ClickedClue.position),
                 IF lastEvent.hit = "helloCube" THEN 1000 ELSE 3000)) =>
        /\ lastEvent.accepted
        /\ gameState.currentLevel = lastEvent.before.currentLevel + 1
        /\ gameState.completedLevels =
              Append(lastEvent.before.completedLevels, lastEvent.before.currentLevel)

(* C6: once a click on the level-k clue has advanced currentLevel to k+1,  *)
(* the same click again returns false and leaves currentLevel at k+1.      *)
RepeatedClickDoesNotReadvance ==
    (lastEvent.kind = "click" /\ lastEvent.repeat) =>
        /\ ~lastEvent.accepted
        /\ gameState.currentLevel = lastEvent.before.currentLevel
        /\ gameState.currentLevel = ClickedClue.level + 1

(* C6 witness: the click that follows an advancing click on the same clue. *)
RepeatedClickWitness ==
    /\ lastEvent.kind = "click"
    /\ lastEvent.repeat
    /\ lastEvent.hit = "newCube"

(* C7 (as claimed): when the clicks on clues 0, 1, 2 have been accepted in *)
(* order, currentLevel is the clue count and the game is complete.         *)
CompletionReached ==
    acceptedClicks = {0, 1, 2} =>
        /\ gameState.currentLevel = Len(cubeProgression)
        /\ gameState.isGameComplete
        /\ gameState.treasuresFound = gameState.totalTreasures

(* C8: currentLevel never decreases, grows by at most one per event, only  *)
(* in an accepted click, and never exceeds the clue count.                 *)
LevelMonotone ==
    [][/\ gameState'.currentLevel >= gameState.currentLevel
       /\ gameState'.currentLevel <= gameState.currentLevel + 1
       /\ gameState'.currentLevel <= Len(cubeProgression)
       /\ gameState'.currentLevel # gameState.currentLevel =>
             (lastEvent'.kind = "click" /\ lastEvent'.accepted)]_vars

(* C8 witness: an accepted click has raised currentLevel to 2. *)
LevelMonotoneWitness ==
    /\ lastEvent.kind = "click"
    /\ lastEvent.accepted
    /\ lastEvent.before.currentLevel = 1
    /\ gameState.currentLevel = 2

(* C9: a click is accepted only on a clue that is the current level while  *)
(* the hunt is started, and in reach it then is; before startTreasureHunt  *)
(* no click is accepted or changes the progression.                        *)
ClickableOnlyWhenStarted ==
    lastEvent.kind = "click" =>
        /\ lastEvent.accepted =>
              /\ lastEvent.hit \in ClueNames
              /\ lastEvent.before.gameStarted
              /\ ClickedClue.level = lastEvent.before.currentLevel
        /\ (/\ lastEvent.hit \in ClueNames
            /\ lastEvent.before.gameStarted
            /\ ClickedClue.level = lastEvent.before.currentLevel
            /\ DistLess(DistSq(playerPosition, ClickedClue.position), 1000)) => lastEvent.accepted
        /\ ~lastEvent.before.gameStarted =>
              /\ ~lastEvent.accepted
              /\ Progression(gameState) = Progression(lastEvent.before)

(* C9 witness: the first clue is clicked from within its reach before the  *)
(* hunt was started.                                                       *)
ClickBeforeStartWitness ==
    /\ lastEvent.kind = "click"
    /\ lastEvent.hit = "helloCube"
    /\ ~lastEvent.before.gameStarted
    /\ DistLess(DistSq(playerPosition, ClickedClue.position), 1000)

(* C10: a click on the current-level clue advances only from strictly      *)
(* within the clue's threshold (1.0 for helloCube, 3.0 for newCube and     *)
(* anotherCube2); at or beyond it the click returns false and changes      *)
(* nothing.                                                                *)
ProximityGate ==
    (IsClueClick /\ ClickedClue.level = lastEvent.before.currentLevel) =>
        LET threshold == IF lastEvent.hit = "helloCube" THEN 1000 ELSE 3000
            d2 == DistSq(playerPosition, ClickedClue.position)
        IN  /\ lastEvent.accepted => d2 < threshold * threshold
            /\ d2 >= threshold * threshold =>
                  /\ ~lastEvent.accepted
                  /\ Progression(gameState) = Progression(lastEvent.before)

(* C10 witness: the hunt is on and the first clue is clicked from more     *)
(* than 1.0 but less than 3.0 away.                                        *)
ProximityGateWitness ==
    /\ lastEvent.kind = "click"
    /\ lastEvent.hit = "helloCube"
    /\ lastEvent.before.gameStarted
    /\ lastEvent.before.currentLevel = 0
    /\ ~DistLess(DistSq(playerPosition, ClickedClue.position), 1000)
    /\ DistLess(DistSq(playerPosition, ClickedClue.position), 3000)

(* C11 (as claimed): a ray that intersects no mesh is answered with a      *)
(* ground hit: objectType 'ground' and a finite point whose y is           *)
(* groundLevel.                                                            *)
RaycastFallbackOnGround ==
    (lastEvent.kind = "raycast" /\ lastEvent.intersects = <<>>) =>
        /\ currentHit.objectType = "ground"
        /\ currentHit.point.y = groundLevel
        /\ IsFinite(currentHit.point.x)
        /\ IsFinite(currentHit.point.z)

(* C12 (as claimed): the hit reported is the nearest interactive one if    *)
(* there is one, else the nearest visible one that is not the ground       *)
(* plane if there is one, else the nearest one.                            *)
RaycastSelectionPriority ==
    (lastEvent.kind = "raycast" /\ lastEvent.intersects # <<>>) =>
        LET ints == lastEvent.intersects
            Interactive(i) == SceneObjects[ints[i].object].title # ""
            Visible(i) == /\ ints[i].object # "accurate_ground_plane"
                          /\ SceneObjects[ints[i].object].opacity > 0
            First(S) == CHOOSE i \in S : \A j \in S : i <= j
            I == {i \in DOMAIN ints : Interactive(i)}
            V == {i \in DOMAIN ints : Visible(i)}
            expected == IF I # {} THEN First(I) ELSE IF V # {} THEN First(V) ELSE 1
        IN  /\ currentHit.hasHit
            /\ currentHit.object = ints[expected].object
            /\ currentHit.distance = ints[expected].distance

NoVerticalRunaway ==
    (lastEvent.kind = "tick" /\ lastEvent.run.n > 0) =>
        60 * Abs(playerVelocity.y) <= 60 * Abs(lastEvent.run.vy0) + 9810 * lastEvent.run.sum60

(* C14 witness: three zero-input frames in free fall, the bound attained.  *)
NoVerticalRunawayWitness ==
    /\ lastEvent.kind = "tick"
    /\ lastEvent.run.n = 3
    /\ ~isGrounded
    /\ 60 * Abs(playerVelocity.y) = 60 * Abs(lastEvent.run.vy0) + 9810 * lastEvent.run.sum60

(* C15 (as claimed): a frame in which a statement of update raises leaves  *)
(* position, velocity, isGrounded and isCrouching as they were before the  *)
(* frame.                                                                  *)
FaultyTickIsNoop ==
    lastEvent.kind = "fault" => Cur = lastEvent.pre

(* C16 (as claimed): the promise loadSplatMesh returns is always settled   *)
(* in the end, resolved or rejected.                                       *)
LoadSettles ==
    (loadPromise = "pending") ~> (loadPromise \in {"resolved", "rejected"})

(* C17 (as claimed): with a configuration that has a part missing, and the *)
(* asset itself loaded (or its configuration the missing part), the frame  *)
(* loop is never started, and when startGame is over it has failed towards *)
(* its caller.                                                             *)
ConfigErrorIsFatal ==
    (sceneConfig # "ok" /\ (loadPromise = "resolved" \/ sceneConfig = "noSplat")) =>
        /\ ~animateStarted
        /\ startGameResult \in {"none", "pending", "rejected"}

(* C18: the camera position a frame leaves is the one derived from the     *)
(* frame's final player position and crouch state.                         *)
CameraFollowsFinalPosition ==
    lastEvent.kind = "tick" =>
        /\ cameraPosition.x = playerPosition.x
        /\ cameraPosition.z = playerPosition.z
        /\ cameraPosition.y = playerPosition.y + (IF isCrouching THEN 500 ELSE 850) + 100

(* C18 witness: a frame whose ground pass moved the player after the       *)
(* collision stage.                                                        *)
CameraFollowsFinalPositionWitness ==
    /\ lastEvent.kind = "tick"
    /\ lastEvent.resolved.pos.y < playerPosition.y
    /\ playerPosition # lastEvent.pre.pos

(* C19 (as claimed): a frame begun airborne whose candidate the polygon    *)
(* rejects still moves the player vertically: y becomes the candidate's y  *)
(* (or the floor) and the fall speed is kept.                              *)
PolygonRejectionKeepsFalling ==
    (/\ lastEvent.kind = "tick"
     /\ ~lastEvent.pre.grounded
     /\ ~isPointInPolygon(lastEvent.cand)) =>
        /\ playerPosition.y = Max(lastEvent.cand.y, groundLevel + PLAYER_RADIUS)
        /\ ~isGrounded => playerVelocity.y = lastEvent.integrated.vel.y

(* C20 (as claimed): on the frame that follows a frame in which the red    *)
(* cube collision fired, with no movement input held, the player has moved *)
(* horizontally away from the cube centre.                                 *)
PushbackBounces ==
    (/\ lastEvent.kind = "tick"
     /\ lastEvent.prevFired
     /\ lastEvent.input.forward = 0
     /\ lastEvent.input.right = 0) =>
        LET before == lastEvent.pre.pos
            dBefore == (before.x - redCubePos.x) * (before.x - redCubePos.x)
                       + (before.z - redCubePos.z) * (before.z - redCubePos.z)
            dAfter  == (playerPosition.x - redCubePos.x) * (playerPosition.x - redCubePos.x)
                       + (playerPosition.z - redCubePos.z) * (playerPosition.z - redCubePos.z)
        IN  dAfter > dBefore

-----------------------------------------------------------------------------
(* Vertical and horizontal input handling *)

(* history: the vertical velocity the last frame's handleVerticalMovement  *)
(* left, read back from the velocity the frame integrated                  *)
verticalAfterInput == lastEvent.integrated.vel.y - RoundDiv(gravity, lastEvent.input.den)

(* C21: a frame assigns JUMP_FORCE to the vertical velocity only when it   *)
(* starts grounded with Space held; in a frame that starts airborne Space  *)
(* can only raise the vertical velocity to FLY_SPEED, and only below       *)
(* MAX_FLY_HEIGHT (the height clamp can only cancel a rise), so a held     *)
(* Space gives no second jump impulse before landing.                      *)
JumpOnlyWhenGrounded ==
    lastEvent.kind = "tick" =>
        LET pre == lastEvent.pre
            in  == lastEvent.input
            vy  == verticalAfterInput
        IN  /\ vy = JUMP_FORCE => (pre.grounded /\ in.space)
            /\ (in.space /\ ~pre.grounded) =>
                   /\ vy > pre.vel.y => (pre.pos.y < MAX_FLY_HEIGHT /\ vy = FLY_SPEED)
                   /\ vy < pre.vel.y => (pre.pos.y > ceilingY /\ vy = 0)

(* a frame that starts airborne, still rising from a jump, with Space held *)
JumpOnlyWhenGroundedWitness ==
    /\ lastEvent.kind = "tick"
    /\ lastEvent.input.space
    /\ ~lastEvent.pre.grounded
    /\ lastEvent.pre.vel.y > FLY_SPEED
    /\ verticalAfterInput = lastEvent.pre.vel.y

(* C22: after every frame the player is at or below the height clamp,      *)
(* MAX_FLY_HEIGHT + PLAYER_HEIGHT / 2, whatever keys were held (a jump     *)
(* from the ground with Space kept down included).                         *)
HeightCap == playerPosition.y <= ceilingY

(* C23: in a frame whose |forward| and |right| are both at most 0.1 the    *)
(* horizontal velocity the frame integrates is zero whatever the previous  *)
(* frame left, so the candidate's x and z are the pre-frame x and z.       *)
HardStop ==
    (/\ lastEvent.kind = "tick"
     /\ Abs(lastEvent.input.forward) <= 100
     /\ Abs(lastEvent.input.right) <= 100)
    => /\ lastEvent.integrated.vel.x = 0
       /\ lastEvent.integrated.vel.z = 0
       /\ lastEvent.cand.x = lastEvent.pre.pos.x
       /\ lastEvent.cand.z = lastEvent.pre.pos.z

(* a frame without horizontal intent that starts with the horizontal       *)
(* velocity a walking frame left                                           *)
HardStopWitness ==
    /\ lastEvent.kind = "tick"
    /\ Abs(lastEvent.input.forward) <= 100
    /\ Abs(lastEvent.input.right) <= 100
    /\ (lastEvent.pre.vel.x # 0 \/ lastEvent.pre.vel.z # 0)
    /\ lastEvent.cand.x = lastEvent.pre.pos.x
    /\ lastEvent.cand.z = lastEvent.pre.pos.z

-----------------------------------------------------------------------------
(* The red cube *)

(* the player state the last frame handed to forcePlayerOutOfRedCube was   *)
(* within the embed threshold of the red cube's centre                     *)
wasEmbedded ==
    /\ lastEvent.kind = "tick"
    /\ IsNum(lastEvent.grounded.pos.x)
    /\ IsNum(lastEvent.grounded.pos.z)
    /\ DistLess(DistSq(lastEvent.grounded.pos, redCubePos), embedThreshold)

(* C24: whenever a frame's resolution ends with the player within the      *)
(* embed threshold of the red cube's centre, whatever the direction of the *)
(* offset (purely vertical and zero included), the frame leaves the player *)
(* at finite coordinates, no longer within the threshold, with y unchanged *)
(* and the horizontal velocity zero.                                       *)
EmergencyUnstick ==
    wasEmbedded =>
        /\ IsNum(playerPosition.x)
        /\ IsNum(playerPosition.z)
        /\ ~DistLess(DistSq(playerPosition, redCubePos), embedThreshold)
        /\ playerPosition.y = lastEvent.grounded.pos.y
        /\ playerVelocity.x = 0
        /\ playerVelocity.z = 0

(* C25: a player that starts at least the safety distance (cube radius +   *)
(* PLAYER_RADIUS + 0.5) from the red cube's centre is never closer than    *)
(* that after a frame, the frames whose y the ground pass or the height    *)
(* clamp adjusted included.                                                *)
ObstacleImpenetrable == ~wouldCollideWithRedCube(playerPosition)

(* C28: a player whose (x, z) starts inside the boundary polygon has its   *)
(* (x, z) inside the polygon after every frame, the frames in which the    *)
(* red cube test or the emergency unstick decided the outcome included.    *)
PlayerStaysInPolygon == isPointInPolygon(playerPosition)

-----------------------------------------------------------------------------
(* Progression bookkeeping *)

(* C29: in every reachable state completedLevels is exactly 0, 1, ...,     *)
(* currentLevel - 1, treasuresFound is its length and at most              *)
(* totalTreasures, and currentLevel indexes a clue of cubeProgression      *)
(* whenever the game is not complete.                                      *)
BookkeepingConsistent ==
    /\ gameState.completedLevels = [i \in 1..gameState.currentLevel |-> i - 1]
    /\ gameState.treasuresFound = Len(gameState.completedLevels)
    /\ gameState.treasuresFound <= gameState.totalTreasures
    /\ ~gameState.isGameComplete => gameState.currentLevel \in 0..(Len(cubeProgression) - 1)

(* two clues have been found, one after the other *)
BookkeepingConsistentWitness ==
    /\ gameState.currentLevel = 2
    /\ gameState.completedLevels = <<0, 1>>
    /\ gameState.treasuresFound = 2
    /\ acceptedClicks = {0, 1}

-----------------------------------------------------------------------------
(* Session start and the frame loop *)

(* C26: PhysicsSystem.initialize is called at most 3 times and not again   *)
(* after a success; the 1 s wait follows a failed call that is not the     *)
(* last; after the third failure physicsSystem is null and the session     *)
(* goes on to run; its frames then leave the physics state alone and its   *)
(* clicks are handled with the origin as player position.                  *)
PhysicsRetryBounded ==
    /\ initializeCalls <= physicsRetryCount
    /\ physicsSystem = "initialized" => initializeCalls = 1
    /\ startPhase = "physicsBackoff" =>
           /\ initializeCalls \in 1..(physicsRetryCount - 1)
           /\ physicsSystem = "constructed"
    /\ physicsSystem = "null" =>
           /\ initializeCalls = physicsRetryCount
           /\ startPhase = "running"
           /\ animateStarted
           /\ ticks = 0
           /\ playerPosition = [x |-> 0, y |-> 0, z |-> 0]
           /\ playerVelocity = [x |-> 0, y |-> 0, z |-> 0]
           /\ lastEvent.kind = "click" => lastEvent.playerPos = [x |-> 0, y |-> 0, z |-> 0]

(* a frame has run in a session whose physics gave up after three calls *)
PhysicsRetryBoundedWitness ==
    /\ physicsSystem = "null"
    /\ initializeCalls = physicsRetryCount
    /\ physicsRetries = 0
    /\ lastEvent.kind = "frame"
    /\ ~lastEvent.physics

(* C27: animate() is invoked only once init has completed (asset loaded,   *)
(* game objects created, systems initialised, listeners registered); when  *)
(* init fails, animate() is never invoked and no physics frame ever runs.  *)
LoopGatedByInit ==
    /\ [](animateStarted =>
            /\ startPhase = "running"
            /\ loadPromise = "resolved"
            /\ physicsSystem \in {"initialized", "null"})
    /\ []((pendingFrames > 0 \/ lastEvent.kind = "frame" \/ ticks > 0) => animateStarted)
    /\ [](startPhase = "failed" => [](~animateStarted /\ pendingFrames = 0 /\ ticks = 0))

(* init has failed after the asset was loaded, in createGameObjects *)
LoopGatedByInitWitness ==
    /\ startPhase = "failed"
    /\ loadPromise = "resolved"
    /\ startGameResult = "resolved"
    /\ ~animateStarted

(* C30: every invocation of animate() schedules exactly one successor,     *)
(* whether its body runs to the end or raises into the outer catch, so at  *)
(* most one animate callback is pending at any time.                       *)
OneFrameLoop ==
    /\ pendingFrames <= 1
    /\ lastEvent.kind = "frame" => pendingFrames = lastEvent.pending

====
